---- MODULE Spec2Model ----
(***************************************************************************)
(* Model of software/nios2_matrix_accel_benchmark.c: the software 4x4      *)
(* matrix engine, the driver of the memory-mapped matrix accelerator, and  *)
(* the benchmark loop of main with its interval-timer measurements.        *)
(*                                                                         *)
(* Number representation.  TLC's integers are 32-bit signed, so            *)
(*   - an int16_t or int32_t value is the integer itself;                  *)
(*   - a uint32_t (a bus word) is a pair <<hi, lo>> of 16-bit halves,      *)
(*     standing for hi * 2^16 + lo;                                        *)
(*   - an unbounded integer (used to detect signed overflow) is a pair     *)
(*     <<h, l>> with l in 0..65535 and h any integer: h * 2^16 + l.        *)
(*                                                                         *)
(* Undefined behaviour is a choice among the outcomes a build can show:    *)
(* signed overflow of the accumulator wraps or traps, division by zero     *)
(* traps or leaves an arbitrary quotient, and the two unsequenced reads of *)
(* the count registers happen in either order.                             *)
(***************************************************************************)
EXTENDS Integers, Sequences, FiniteSets, TLC

(***************************************************************************)
(* Program constants                                                       *)
(***************************************************************************)
SAFE_INPUT_MAX == 23170
A_OFFSET == 0
B_OFFSET == 16
SUM_OFFSET == 32
DIFF_OFFSET == 48
PROD_OFFSET == 64
CONTROL_OFFSET == 80
STATUS_OFFSET == 81

\* Timer register word offsets used by main (timer + n).
TIMER_CONTROL == 1
TIMER_PERIODL == 2
TIMER_PERIODH == 3
TIMER_SNAPL == 4
TIMER_SNAPH == 5
\* Values main writes to the timer.
PERIOD_MAX16 == 65535
TIMER_START == 4
TIMER_STOP == 8

(***************************************************************************)
(* Bounds of the model                                                     *)
(***************************************************************************)
\* Iterations of main's while (1) loop that are explored.
MaxIter == 2
\* Timer ticks that may elapse during one measurement.
MaxTicks == 1

(***************************************************************************)
(* Fixed-width arithmetic                                                  *)
(***************************************************************************)
\* 2^16 and 2^15: the size and the sign bit of a 16-bit half.
Half == 2^16
HalfSign == 2^15

Int16Range == (0 - HalfSign)..(HalfSign - 1)
Cells == 0..15

\* A uint32_t word.
IsWord(w) == w[1] \in 0..(Half - 1) /\ w[2] \in 0..(Half - 1)
Word0 == <<0, 0>>
Word1 == <<0, 1>>
WordAllOnes == <<Half - 1, Half - 1>>

\* (uint32_t)v for a signed 16- or 32-bit value v: v mod 2^32.
ToUint32ZeroExtended(v) == <<0, v % Half>>
ToUint32(v) == <<(v \div Half) % Half, v % Half>>

\* The low 16 bits of a word, taken as a signed 16-bit value.
Low16Signed(w) == IF w[2] >= HalfSign THEN w[2] - Half ELSE w[2]

\* (int32_t)w for a uint32_t w: two's-complement reinterpretation.
ToInt32Truncated(w) == Low16Signed(w)
ToInt32(w) == IF w[1] >= HalfSign THEN (w[1] - Half) * Half + w[2]
                                  ELSE w[1] * Half + w[2]


\* Unbounded integers as <<h, l>>.
WideOf(v) == <<v \div Half, v % Half>>
WideAdd(x, y) == <<x[1] + y[1] + ((x[2] + y[2]) \div Half), (x[2] + y[2]) % Half>>
InInt32(x) == x[1] >= 0 - HalfSign /\ x[1] <= HalfSign - 1
\* Reduction of an unbounded integer to int32_t by two's-complement wraparound.
WrapInt32(x) == (((x[1] + HalfSign) % Half) - HalfSign) * Half + x[2]
\* Reduction of an unbounded integer to int16_t by wraparound.
WrapInt16(x) == ((x[2] + HalfSign) % Half) - HalfSign

\* Bitwise operations on 16-bit halves and on words.
RECURSIVE Or16(_, _, _)
Or16(a, b, n) ==
    IF n = 0 THEN 0
    ELSE (IF a % 2 = 1 \/ b % 2 = 1 THEN 1 ELSE 0) + 2 * Or16(a \div 2, b \div 2, n - 1)
WordOr(x, y) == <<Or16(x[1], y[1], 16), Or16(x[2], y[2], 16)>>
WordShl16(x) == <<x[2], 0>>
WordBit0(x) == x[2] % 2
\* x - y modulo 2^32.
WordSub(x, y) ==
    LET lo == x[2] - y[2]
        borrow == IF lo < 0 THEN 1 ELSE 0
    IN  <<(x[1] - y[1] - borrow) % Half, lo % Half>>
\* x - 1 modulo 2^32.
WordDec(x) == WordSub(x, Word1)
\* A word below 2^31 as a natural number, and back.
WordToNat(x) == x[1] * Half + x[2]
NatToWord(n) == <<n \div Half, n % Half>>
\* Unsigned division of words (divisor nonzero, operands below 2^31).
WordDiv(x, y) == NatToWord(WordToNat(x) \div WordToNat(y))

(***************************************************************************)
(* Operand matrices: 16 int16_t values, row-major, indexed 0..15           *)
(***************************************************************************)
Mat(s) == [c \in Cells |-> s[c + 1]]
Uniform(v) == [c \in Cells |-> v]

Identity == Mat(<<1, 0, 0, 0,  0, 1, 0, 0,  0, 0, 1, 0,  0, 0, 0, 1>>)
Counting == Mat(<<1, 2, 3, 4,  5, 6, 7, 8,  9, 10, 11, 12,  13, 14, 15, 16>>)
Mixed    == Mat(<<-3, 7, 0, 1,  23170, -23170, 2, -5,  0, 0, -1, 9,  100, -200, 300, -400>>)
Skew     == Mat(<<0, -1, 2, 0,  5, 0, 0, -23170,  23170, 1, 0, 0,  -7, 0, 11, 1>>)
Checker  == [c \in Cells |-> IF (c + c \div 4) % 2 = 0 THEN SAFE_INPUT_MAX ELSE 0 - SAFE_INPUT_MAX]
AllMax   == Uniform(SAFE_INPUT_MAX)
AllMin   == Uniform(0 - SAFE_INPUT_MAX)
Int16Max == Uniform(HalfSign - 1)
Int16Min == Uniform(0 - HalfSign)

InSafeRange(M) == \A c \in Cells : M[c] >= 0 - SAFE_INPUT_MAX /\ M[c] <= SAFE_INPUT_MAX

\* Operand pairs the console input of main is drawn from.
InputPairs ==
    { <<Mixed, Skew>>, <<AllMin, AllMax>>, <<Int16Min, Int16Min>> }

\* Operands the software engine is exercised on as a function.
MatrixPool ==
    { Identity, Counting, Mixed, Skew, Checker, AllMax, AllMin,
      Uniform(0), Int16Max, Int16Min }

(***************************************************************************)
(* software_matrix_operations                                              *)
(***************************************************************************)
\* SW_Sum[i] = (int32_t)A[i] + (int32_t)B[i]
SwSum(MA, MB) == [c \in Cells |-> MA[c] + MB[c]]

\* SW_Diff[i] = (int32_t)A[i] - (int32_t)B[i]
SwDiffSwapped(MA, MB) == [c \in Cells |-> MB[c] - MA[c]]
SwDiff(MA, MB) == [c \in Cells |-> MA[c] - MB[c]]

\* One term of the inner loop: (int32_t)A[i*4 + k] * (int32_t)B[k*4 + j]
TermTransposed(MA, MB, r, c, k) == MA[r * 4 + k] * MB[c * 4 + k]
Term(MA, MB, r, c, k) == MA[r * 4 + k] * MB[k * 4 + c]

\* The value of `sum' after n passes of the k loop for cell (r, c), over the
\* unbounded integers: sum = 0; sum = sum + term(k) for k = 0..n-1.
RECURSIVE SumAfter(_, _, _, _, _)
SumAfter(MA, MB, r, c, n) ==
    IF n = 0 THEN WideOf(0)
    ELSE WideAdd(SumAfter(MA, MB, r, c, n - 1), WideOf(Term(MA, MB, r, c, n - 1)))

\* Whether some value of the int32_t accumulator leaves the int32_t range
\* (signed overflow: undefined behaviour).
SwOverflows(MA, MB) ==
    \E r \in 0..3, c \in 0..3, n \in 1..4 : ~InInt32(SumAfter(MA, MB, r, c, n))

\* SW_Result[i*4 + j] = sum, the accumulator being an int32_t.
ProdCellInt16(MA, MB, r, c) == WrapInt16(SumAfter(MA, MB, r, c, 4))
ProdCell(MA, MB, r, c) == WrapInt32(SumAfter(MA, MB, r, c, 4))

SwProd(MA, MB) == [c \in Cells |-> ProdCell(MA, MB, c \div 4, c % 4)]

software_matrix_operations(MA, MB) ==
    [sum |-> SwSum(MA, MB), diff |-> SwDiff(MA, MB), prod |-> SwProd(MA, MB)]

(***************************************************************************)
(* State                                                                   *)
(***************************************************************************)
VARIABLES
    pc,             \* the statement executed next, named by its source line
    i,              \* the loop counter of hardware_matrix_operations
    iter,           \* iterations of main's loop started so far
    A, B,           \* the operand matrices of main
    SW_Sum, SW_Diff, SW_Prod,   \* outputs of the software engine
    HW_Sum, HW_Diff, HW_Prod,   \* outputs of the driver (cells assigned so far)
    sw_cycles, hw_cycles, last_count, speedup, cont,
    count_part,     \* the count register main has read first on line 199 / 213
    accel_regs,     \* accelerator: operand and result registers, offsets 0..79
    accel_busy,     \* accelerator: a computation is under way
    accel_done,     \* accelerator: status bit 0
    accel_started,  \* history: computations started by a control write
    accel_finished, \* history: computations completed
    timer_period,   \* timer: the period registers, as one word
    timer_counter,  \* timer: the down counter
    timer_snap,     \* timer: the latched snapshot
    timer_running,  \* timer: counting
    timer_ticks,    \* history: ticks counted since the last start write
    trace,          \* history: the accelerator accesses of the current driver call
    tlog,           \* history: timer accesses and engine runs of the current iteration
    fault           \* history: the undefined behaviours met so far

progVars  == <<pc, i, iter, A, B, SW_Sum, SW_Diff, SW_Prod, HW_Sum, HW_Diff, HW_Prod,
               sw_cycles, hw_cycles, last_count, speedup, cont, count_part>>
accelVars == <<accel_regs, accel_busy, accel_done, accel_started, accel_finished>>
timerVars == <<timer_period, timer_counter, timer_snap, timer_running, timer_ticks>>
histVars  == <<trace, tlog, fault>>
vars      == <<progVars, accelVars, timerVars, histVars>>

\* An object that holds no value yet (an uninitialised local, an array with no
\* cell assigned).  Scalars that hold a value are a word <<hi, lo>> or, for
\* the int speedup, a one-element tuple <<v>>.
NoValue == <<>>

\* The array M with cell c assigned v.
Assign(M, c, v) == [d \in (DOMAIN M) \cup {c} |-> IF d = c THEN v ELSE M[d]]

(***************************************************************************)
(* History                                                                 *)
(***************************************************************************)
Entry(op, off, val) == [op |-> op, off |-> off, val |-> val]
\* A run of identical consecutive entries is recorded once.
AppendRun(log, e) == IF log # <<>> /\ log[Len(log)] = e THEN log ELSE Append(log, e)

(***************************************************************************)
(* The accelerator peripheral (mat_mul_sub_add_all_parallel_16bit)         *)
(***************************************************************************)
AccelOperandA(regs, c) == Low16Signed(regs[A_OFFSET + c])
AccelOperandB(regs, c) == Low16Signed(regs[B_OFFSET + c])

\* A signed 32-bit result as the word its register holds.
AccelEncode(v) == <<(v \div Half) % Half, v % Half>>

\* Row r of A times column c of B, reduced to 32 bits.
AccelProduct(regs, r, c) ==
    WrapInt32(WideAdd(WideAdd(WideOf(AccelOperandA(regs, 4 * r) * AccelOperandB(regs, c)),
                              WideOf(AccelOperandA(regs, 4 * r + 1) * AccelOperandB(regs, 4 + c))),
                      WideAdd(WideOf(AccelOperandA(regs, 4 * r + 2) * AccelOperandB(regs, 8 + c)),
                              WideOf(AccelOperandA(regs, 4 * r + 3) * AccelOperandB(regs, 12 + c)))))

\* The register file with the three result regions filled in from the operands.
AccelResults(regs) ==
    [off \in 0..(CONTROL_OFFSET - 1) |->
        IF off < SUM_OFFSET THEN regs[off]
        ELSE IF off < DIFF_OFFSET
            THEN AccelEncode(AccelOperandA(regs, off - SUM_OFFSET) + AccelOperandB(regs, off - SUM_OFFSET))
        ELSE IF off < PROD_OFFSET
            THEN AccelEncode(AccelOperandA(regs, off - DIFF_OFFSET) - AccelOperandB(regs, off - DIFF_OFFSET))
        ELSE AccelEncode(AccelProduct(regs, (off - PROD_OFFSET) \div 4, (off - PROD_OFFSET) % 4))]

\* The status word: bit 0 = done, bit 1 = busy.
AccelStatus == <<0, (IF accel_done THEN 1 ELSE 0) + (IF accel_busy THEN 2 ELSE 0)>>

\* The word a bus read of offset off returns.
AccelRead(off) ==
    IF off = STATUS_OFFSET THEN AccelStatus
    ELSE IF off < CONTROL_OFFSET THEN accel_regs[off]
    ELSE Word0

\* The effect of a bus write of word w to offset off.
AccelWrite(off, w) ==
    IF off < SUM_OFFSET
    THEN /\ accel_regs' = [accel_regs EXCEPT ![off] = w]
         /\ UNCHANGED <<accel_busy, accel_done, accel_started, accel_finished>>
    ELSE IF off = CONTROL_OFFSET /\ WordBit0(w) = 1
    THEN /\ accel_busy' = TRUE
         /\ accel_done' = FALSE
         /\ accel_started' = accel_started + 1
         /\ UNCHANGED <<accel_regs, accel_finished>>
    ELSE UNCHANGED accelVars

\* The computation started by the control write completes.
AccelFinish ==
    /\ accel_busy
    /\ ~accel_done
    /\ accel_regs' = AccelResults(accel_regs)
    /\ accel_busy' = FALSE
    /\ accel_done' = TRUE
    /\ accel_finished' = accel_finished + 1
    /\ UNCHANGED accel_started
    /\ UNCHANGED <<progVars, timerVars, histVars>>

\* The computation completes and DONE rises while BUSY is still set: the
\* register map defines bit 0 of the status word only.
AccelDoneFirst ==
    /\ accel_busy
    /\ ~accel_done
    /\ accel_regs' = AccelResults(accel_regs)
    /\ accel_done' = TRUE
    /\ accel_finished' = accel_finished + 1
    /\ UNCHANGED <<accel_busy, accel_started>>
    /\ UNCHANGED <<progVars, timerVars, histVars>>

\* BUSY falls after DONE has risen.
AccelIdle ==
    /\ accel_busy
    /\ accel_done
    /\ accel_busy' = FALSE
    /\ UNCHANGED <<accel_regs, accel_done, accel_started, accel_finished>>
    /\ UNCHANGED <<progVars, timerVars, histVars>>

(***************************************************************************)
(* The interval timer                                                      *)
(***************************************************************************)
HasBit(v, b) == (v \div b) % 2 = 1

\* The effect of a bus write of the value v to timer offset off.
TimerWrite(off, v) ==
    IF off = TIMER_PERIODL
    THEN /\ timer_period' = <<timer_period[1], v % Half>>
         /\ timer_counter' = timer_period'
         /\ timer_running' = FALSE
         /\ UNCHANGED <<timer_snap, timer_ticks>>
    ELSE IF off = TIMER_PERIODH
    THEN /\ timer_period' = <<v % Half, timer_period[2]>>
         /\ timer_counter' = timer_period'
         /\ timer_running' = FALSE
         /\ UNCHANGED <<timer_snap, timer_ticks>>
    ELSE IF off = TIMER_CONTROL
    THEN /\ timer_running' = IF HasBit(v, TIMER_STOP) THEN FALSE
                             ELSE IF HasBit(v, TIMER_START) THEN TRUE
                             ELSE timer_running
         /\ timer_ticks' = IF HasBit(v, TIMER_START) THEN 0 ELSE timer_ticks
         /\ UNCHANGED <<timer_period, timer_counter, timer_snap>>
    ELSE IF off = TIMER_SNAPL \/ off = TIMER_SNAPH
    THEN /\ timer_snap' = timer_counter
         /\ UNCHANGED <<timer_period, timer_counter, timer_running, timer_ticks>>
    ELSE UNCHANGED timerVars

\* The word a bus read of timer offset off returns (16-bit registers).
TimerRead(off) ==
    IF off = TIMER_SNAPL THEN <<0, timer_snap[2]>>
    ELSE IF off = TIMER_SNAPH THEN <<0, timer_snap[1]>>
    ELSE Word0

\* Ticks counted since the counter was last reloaded.
TimerElapsed == WordSub(timer_period, timer_counter)

\* One tick of the running timer.
TimerTick ==
    /\ timer_running
    /\ WordToNat(TimerElapsed) < MaxTicks
    /\ timer_counter' = WordDec(timer_counter)
    /\ timer_ticks' = timer_ticks + 1
    /\ UNCHANGED <<timer_period, timer_snap, timer_running>>
    /\ UNCHANGED <<progVars, accelVars, histVars>>

(***************************************************************************)
(* Initial state: main entered, peripherals idle                           *)
(***************************************************************************)
Init ==
    /\ pc = "L143"
    /\ i = 0
    /\ iter = 0
    /\ A = NoValue /\ B = NoValue
    /\ SW_Sum = NoValue /\ SW_Diff = NoValue /\ SW_Prod = NoValue
    /\ HW_Sum = NoValue /\ HW_Diff = NoValue /\ HW_Prod = NoValue
    /\ sw_cycles = NoValue /\ hw_cycles = NoValue
    /\ last_count = NoValue /\ speedup = NoValue
    /\ cont = NoValue /\ count_part = NoValue
    /\ accel_regs = [off \in 0..(CONTROL_OFFSET - 1) |-> Word0]
    /\ accel_busy = FALSE
    /\ accel_done = FALSE
    /\ accel_started = 0
    /\ accel_finished = 0
    /\ timer_period = Word0
    /\ timer_counter = Word0
    /\ timer_snap = Word0
    /\ timer_running = FALSE
    /\ timer_ticks = 0
    /\ trace = <<>>
    /\ tlog = <<>>
    /\ fault = {}

(***************************************************************************)
(* Bus accesses of the program                                             *)
(***************************************************************************)
\* *(timer + off) = v
TimerStore(off, v) ==
    /\ TimerWrite(off, v)
    /\ tlog' = Append(tlog, Entry("w", off, v))

\* accel_base[off] = w
AccelStore(off, w) ==
    /\ AccelWrite(off, w)
    /\ trace' = Append(trace, Entry("w", off, w))
    /\ tlog' = AppendRun(tlog, Entry("accel", 0, 0))

\* A read of accel_base[off] that returned w.  Only polls of the status
\* register repeat an access, so a run of polls that return the same word is
\* one entry of the history and the poll loop needs no bound.
AccelLoaded(off, w) ==
    /\ trace' = IF off = STATUS_OFFSET THEN AppendRun(trace, Entry("r", off, w))
                 ELSE Append(trace, Entry("r", off, w))
    /\ tlog' = AppendRun(tlog, Entry("accel", 0, 0))
    /\ UNCHANGED accelVars

(***************************************************************************)
(* main: console input (lines 139-184)                                     *)
(***************************************************************************)
\* The iteration's operands are read; its history of timer accesses starts.
ReadInput ==
    /\ pc = "L143"
    /\ iter < MaxIter
    /\ \E p \in InputPairs : A' = p[1] /\ B' = p[2]
    /\ iter' = iter + 1
    /\ pc' = "L191"
    /\ tlog' = <<>>
    /\ UNCHANGED <<i, SW_Sum, SW_Diff, SW_Prod, HW_Sum, HW_Diff, HW_Prod,
                   sw_cycles, hw_cycles, last_count, speedup, cont, count_part>>
    /\ UNCHANGED <<accelVars, timerVars, trace, fault>>

(***************************************************************************)
(* main: the timer statements (lines 191-193, 197-200, 205-207, 211-214)   *)
(***************************************************************************)
\* A statement *(timer + off) = v at label `at', followed by label `to'.
TimerStatement(at, to, off, v) ==
    /\ pc = at
    /\ TimerStore(off, v)
    /\ pc' = to
    /\ UNCHANGED <<i, iter, A, B, SW_Sum, SW_Diff, SW_Prod, HW_Sum, HW_Diff, HW_Prod,
                   sw_cycles, hw_cycles, last_count, speedup, cont, count_part>>
    /\ UNCHANGED <<accelVars, trace, fault>>

\* last_count = (*(timer + 5) << 16) | *(timer + 4): the two volatile reads are
\* unsequenced, so either register may be read first.
ReadCountFirst(at, to) ==
    /\ pc = at
    /\ \E off \in {TIMER_SNAPH, TIMER_SNAPL} :
          /\ count_part' = <<off, TimerRead(off)>>
          /\ tlog' = Append(tlog, Entry("r", off, 0))
    /\ pc' = to
    /\ UNCHANGED <<i, iter, A, B, SW_Sum, SW_Diff, SW_Prod, HW_Sum, HW_Diff, HW_Prod,
                   sw_cycles, hw_cycles, last_count, speedup, cont>>
    /\ UNCHANGED <<accelVars, timerVars, trace, fault>>

ReadCountSecond(at, to) ==
    /\ pc = at
    /\ LET off  == IF count_part[1] = TIMER_SNAPH THEN TIMER_SNAPL ELSE TIMER_SNAPH
           high == IF off = TIMER_SNAPH THEN TimerRead(off) ELSE count_part[2]
           low  == IF off = TIMER_SNAPL THEN TimerRead(off) ELSE count_part[2]
       IN  /\ last_count' = WordOr(WordShl16(high), low)
           /\ tlog' = Append(tlog, Entry("r", off, 0))
    /\ count_part' = NoValue
    /\ pc' = to
    /\ UNCHANGED <<i, iter, A, B, SW_Sum, SW_Diff, SW_Prod, HW_Sum, HW_Diff, HW_Prod,
                   sw_cycles, hw_cycles, speedup, cont>>
    /\ UNCHANGED <<accelVars, timerVars, trace, fault>>

\* The elapsed cycles: 0xFFFFFFFF - last_count.
CyclesOfRaw(count) == count
CyclesOf(count) == WordSub(WordAllOnes, count)

SwSetPeriodLow  == TimerStatement("L191", "L192", TIMER_PERIODL, PERIOD_MAX16)
SwSetPeriodHigh == TimerStatement("L192", "L193", TIMER_PERIODH, PERIOD_MAX16)
SwStartTimer    == TimerStatement("L193", "L195", TIMER_CONTROL, TIMER_START)
SwStopTimerAsStart == TimerStatement("L197", "L198", TIMER_CONTROL, TIMER_START)
SwStopTimer     == TimerStatement("L197", "L198", TIMER_CONTROL, TIMER_STOP)
SwSnapshot      == TimerStatement("L198", "L199", TIMER_SNAPL, 1)
SwReadCountFirst  == ReadCountFirst("L199", "L199b")
SwReadCountSecond == ReadCountSecond("L199b", "L200")

SwCalcCycles ==
    /\ pc = "L200"
    /\ sw_cycles' = CyclesOf(last_count)
    /\ pc' = "L205"
    /\ UNCHANGED <<i, iter, A, B, SW_Sum, SW_Diff, SW_Prod, HW_Sum, HW_Diff, HW_Prod,
                   hw_cycles, last_count, speedup, cont, count_part>>
    /\ UNCHANGED <<accelVars, timerVars, histVars>>

HwSetPeriodLow  == TimerStatement("L205", "L206", TIMER_PERIODL, PERIOD_MAX16)
HwSetPeriodHigh == TimerStatement("L206", "L207", TIMER_PERIODH, PERIOD_MAX16)
HwStartTimer    == TimerStatement("L207", "L209", TIMER_CONTROL, TIMER_START)
HwStopTimer     == TimerStatement("L211", "L212", TIMER_CONTROL, TIMER_STOP)
HwSnapshotAsStop == TimerStatement("L212", "L213", TIMER_CONTROL, TIMER_STOP)
HwSnapshot      == TimerStatement("L212", "L213", TIMER_SNAPL, 1)
HwReadCountFirst  == ReadCountFirst("L213", "L213b")
HwReadCountSecond == ReadCountSecond("L213b", "L214")

HwCalcCycles ==
    /\ pc = "L214"
    /\ hw_cycles' = CyclesOf(last_count)
    /\ pc' = "L285"
    /\ UNCHANGED <<i, iter, A, B, SW_Sum, SW_Diff, SW_Prod, HW_Sum, HW_Diff, HW_Prod,
                   sw_cycles, last_count, speedup, cont, count_part>>
    /\ UNCHANGED <<accelVars, timerVars, histVars>>

(***************************************************************************)
(* main: the call of software_matrix_operations (line 195)                 *)
(***************************************************************************)
\* The call returns the function's results.  When the accumulator overflows
\* (undefined behaviour) the build either wraps around or traps.
RunSoftware ==
    /\ pc = "L195"
    /\ \/ /\ LET out == software_matrix_operations(A, B)
             IN  /\ SW_Sum' = out.sum
                 /\ SW_Diff' = out.diff
                 /\ SW_Prod' = out.prod
          /\ fault' = IF SwOverflows(A, B) THEN fault \cup {"signed_overflow"} ELSE fault
          /\ pc' = "L197"
       \/ /\ SwOverflows(A, B)
          /\ fault' = fault \cup {"signed_overflow"}
          /\ pc' = "trap"
          /\ UNCHANGED <<SW_Sum, SW_Diff, SW_Prod>>
    /\ tlog' = Append(tlog, Entry("sw", 0, 0))
    /\ UNCHANGED <<i, iter, A, B, HW_Sum, HW_Diff, HW_Prod,
                   sw_cycles, hw_cycles, last_count, speedup, cont, count_part>>
    /\ UNCHANGED <<accelVars, timerVars, trace>>

(***************************************************************************)
(* hardware_matrix_operations (lines 66-116)                               *)
(***************************************************************************)
driverFrame == <<iter, A, B, SW_Sum, SW_Diff, SW_Prod, sw_cycles, hw_cycles,
                 last_count, speedup, cont, count_part>>

\* main, line 209: the call.  The history of accelerator accesses starts anew.
CallHardware ==
    /\ pc = "L209"
    /\ pc' = "L75"
    /\ i' = 0
    /\ trace' = <<>>
    /\ UNCHANGED <<driverFrame, HW_Sum, HW_Diff, HW_Prod>>
    /\ UNCHANGED <<accelVars, timerVars, tlog, fault>>

\* The loop header for (i = 0; i < 16; i++) after a pass of the body at label
\* `at': the body again, or the statement after the loop at label `to'.
LoopNextShort(at, to) ==
    IF i + 1 < 15 THEN pc' = at /\ i' = i + 1
                  ELSE pc' = to /\ i' = 0
LoopNext(at, to) ==
    IF i + 1 < 16 THEN pc' = at /\ i' = i + 1
                  ELSE pc' = to /\ i' = 0

\* Step 1: accel_base[A_OFFSET + i] = (uint32_t)A[i]
WriteOperandA ==
    /\ pc = "L75"
    /\ AccelStore(A_OFFSET + i, ToUint32(A[i]))
    /\ LoopNext("L75", "L84")
    /\ UNCHANGED <<driverFrame, HW_Sum, HW_Diff, HW_Prod>>
    /\ UNCHANGED <<timerVars, fault>>

\* Step 2: accel_base[B_OFFSET + i] = (uint32_t)B[i]
WriteOperandB ==
    /\ pc = "L84"
    /\ AccelStore(B_OFFSET + i, ToUint32(B[i]))
    /\ LoopNext("L84", "L88")
    /\ UNCHANGED <<driverFrame, HW_Sum, HW_Diff, HW_Prod>>
    /\ UNCHANGED <<timerVars, fault>>

\* Step 3: accel_base[CONTROL_OFFSET] = 1
WriteControlZero ==
    /\ pc = "L88"
    /\ AccelStore(CONTROL_OFFSET, Word0)
    /\ pc' = "L91"
    /\ UNCHANGED <<i, driverFrame, HW_Sum, HW_Diff, HW_Prod>>
    /\ UNCHANGED <<timerVars, fault>>
WriteControl ==
    /\ pc = "L88"
    /\ AccelStore(CONTROL_OFFSET, Word1)
    /\ pc' = "L91"
    /\ UNCHANGED <<i, driverFrame, HW_Sum, HW_Diff, HW_Prod>>
    /\ UNCHANGED <<timerVars, fault>>

\* Step 4: the loop condition (accel_base[STATUS_OFFSET] & 0x1) == 0
PollAgainNever(w) == FALSE
PollAgainAlways(w) == TRUE
PollAgain(w) == WordBit0(w) = 0

PollStatus ==
    /\ pc = "L91"
    /\ LET w == AccelRead(STATUS_OFFSET)
       IN  /\ AccelLoaded(STATUS_OFFSET, w)
           /\ IF PollAgain(w) THEN pc' = "L91" ELSE pc' = "L100"
    /\ UNCHANGED <<i, driverFrame, HW_Sum, HW_Diff, HW_Prod>>
    /\ UNCHANGED <<timerVars, fault>>

\* Step 5: HW_Sum[i] = (int32_t)accel_base[SUM_OFFSET + i]
ReadSum ==
    /\ pc = "L100"
    /\ LET w == AccelRead(SUM_OFFSET + i)
       IN  /\ AccelLoaded(SUM_OFFSET + i, w)
           /\ HW_Sum' = Assign(HW_Sum, i, ToInt32(w))
    /\ LoopNext("L100", "L108")
    /\ UNCHANGED <<driverFrame, HW_Diff, HW_Prod>>
    /\ UNCHANGED <<timerVars, fault>>

\* HW_Diff[i] = (int32_t)accel_base[DIFF_OFFSET + i]
ReadDiffAtSum ==
    /\ pc = "L108"
    /\ LET w == AccelRead(SUM_OFFSET + i)
       IN  /\ AccelLoaded(SUM_OFFSET + i, w)
           /\ HW_Diff' = Assign(HW_Diff, i, ToInt32(w))
    /\ LoopNext("L108", "L114")
    /\ UNCHANGED <<driverFrame, HW_Sum, HW_Prod>>
    /\ UNCHANGED <<timerVars, fault>>
ReadDiff ==
    /\ pc = "L108"
    /\ LET w == AccelRead(DIFF_OFFSET + i)
       IN  /\ AccelLoaded(DIFF_OFFSET + i, w)
           /\ HW_Diff' = Assign(HW_Diff, i, ToInt32(w))
    /\ LoopNext("L108", "L114")
    /\ UNCHANGED <<driverFrame, HW_Sum, HW_Prod>>
    /\ UNCHANGED <<timerVars, fault>>

\* HW_Prod[i] = (int32_t)accel_base[PROD_OFFSET + i]; after the last pass the
\* function returns to main, line 211.
ReadProd ==
    /\ pc = "L114"
    /\ LET w == AccelRead(PROD_OFFSET + i)
       IN  /\ AccelLoaded(PROD_OFFSET + i, w)
           /\ HW_Prod' = Assign(HW_Prod, i, ToInt32(w))
    /\ LoopNext("L114", "L211")
    /\ UNCHANGED <<driverFrame, HW_Sum, HW_Diff>>
    /\ UNCHANGED <<timerVars, fault>>

(***************************************************************************)
(* main: the speedup and the repeat choice (lines 285-295)                 *)
(***************************************************************************)
\* What a build may leave in speedup after an unsigned division by zero that
\* does not trap.
UndefinedQuotients == {0, -1}

\* int speedup = (sw_cycles / hw_cycles);
ComputeSpeedup ==
    /\ pc = "L285"
    /\ IF hw_cycles = Word0
       THEN /\ fault' = fault \cup {"division_by_zero"}
            /\ \/ pc' = "trap" /\ UNCHANGED speedup
               \/ pc' = "L289" /\ \E q \in UndefinedQuotients : speedup' = <<q>>
       ELSE /\ speedup' = <<ToInt32(WordDiv(sw_cycles, hw_cycles))>>
            /\ pc' = "L289"
            /\ UNCHANGED fault
    /\ UNCHANGED <<i, iter, A, B, SW_Sum, SW_Diff, SW_Prod, HW_Sum, HW_Diff, HW_Prod,
                   sw_cycles, hw_cycles, last_count, cont, count_part>>
    /\ UNCHANGED <<accelVars, timerVars, trace, tlog>>

\* scanf(" %c", &cont); break on 'N' or 'n', otherwise the next iteration,
\* where the block-scoped last_count and speedup begin a new lifetime.
AskContinue ==
    /\ pc = "L289"
    /\ \E c \in {"Y", "N", "n"} :
          /\ cont' = c
          /\ IF c = "N" \/ c = "n"
             THEN pc' = "L295" /\ UNCHANGED <<last_count, speedup>>
             ELSE pc' = "L143" /\ last_count' = NoValue /\ speedup' = NoValue
    /\ UNCHANGED <<i, iter, A, B, SW_Sum, SW_Diff, SW_Prod, HW_Sum, HW_Diff, HW_Prod,
                   sw_cycles, hw_cycles, count_part>>
    /\ UNCHANGED <<accelVars, timerVars, histVars>>

(***************************************************************************)
(* The program and its environment                                         *)
(***************************************************************************)
Driver ==
    \/ WriteOperandA \/ WriteOperandB \/ WriteControl \/ PollStatus
    \/ ReadSum \/ ReadDiff \/ ReadProd

Main ==
    \/ ReadInput
    \/ SwSetPeriodLow \/ SwSetPeriodHigh \/ SwStartTimer
    \/ RunSoftware
    \/ SwStopTimer \/ SwSnapshot \/ SwReadCountFirst \/ SwReadCountSecond \/ SwCalcCycles
    \/ HwSetPeriodLow \/ HwSetPeriodHigh \/ HwStartTimer
    \/ CallHardware
    \/ HwStopTimer \/ HwSnapshot \/ HwReadCountFirst \/ HwReadCountSecond \/ HwCalcCycles
    \/ ComputeSpeedup
    \/ AskContinue

Program == Main \/ Driver

Next == Program \/ AccelFinish \/ TimerTick

Spec == Init /\ [][Next]_vars

\* The program with a peripheral whose BUSY bit may outlast the rise of DONE.
LagNext == Next \/ AccelDoneFirst \/ AccelIdle
LagSpec == Init /\ [][LagNext]_vars

(***************************************************************************)
(* The software engine as a function: main at its call on line 195, first  *)
(* iteration, timer started, for every pair of operands of MatrixPool.      *)
(***************************************************************************)
EngineInit ==
    /\ pc = "L195"
    /\ i = 0
    /\ iter = 1
    /\ A \in MatrixPool /\ B \in MatrixPool
    /\ SW_Sum = NoValue /\ SW_Diff = NoValue /\ SW_Prod = NoValue
    /\ HW_Sum = NoValue /\ HW_Diff = NoValue /\ HW_Prod = NoValue
    /\ sw_cycles = NoValue /\ hw_cycles = NoValue
    /\ last_count = NoValue /\ speedup = NoValue
    /\ cont = NoValue /\ count_part = NoValue
    /\ accel_regs = [off \in 0..(CONTROL_OFFSET - 1) |-> Word0]
    /\ accel_busy = FALSE
    /\ accel_done = FALSE
    /\ accel_started = 0
    /\ accel_finished = 0
    /\ timer_period = WordAllOnes
    /\ timer_counter = WordAllOnes
    /\ timer_snap = Word0
    /\ timer_running = TRUE
    /\ timer_ticks = 0
    /\ trace = <<>>
    /\ tlog = << Entry("w", TIMER_PERIODL, PERIOD_MAX16),
                 Entry("w", TIMER_PERIODH, PERIOD_MAX16),
                 Entry("w", TIMER_CONTROL, TIMER_START) >>
    /\ fault = {}

EngineNext == RunSoftware

EngineSpec == EngineInit /\ [][EngineNext]_vars

\* The software engine has returned.
SoftwareReturned == pc = "L197"

(***************************************************************************)
(* One iteration from the call of the software engine to the return of the *)
(* driver, for every pair of operands of MatrixPool.  No tick is counted:   *)
(* the values measured do not matter to the bus encoding.                  *)
(***************************************************************************)
CallNext ==
    \/ RunSoftware
    \/ SwStopTimer \/ SwSnapshot \/ SwReadCountFirst \/ SwReadCountSecond \/ SwCalcCycles
    \/ HwSetPeriodLow \/ HwSetPeriodHigh \/ HwStartTimer
    \/ CallHardware
    \/ Driver
    \/ AccelFinish

CallSpec == EngineInit /\ [][CallNext]_vars
OperandsSafe == InSafeRange(A) /\ InSafeRange(B)

(***************************************************************************)
(* Properties of software_matrix_operations                                *)
(***************************************************************************)
\* C7: for operands within -23170..23170 no value computed by
\* software_matrix_operations leaves the signed 32-bit range: every sum,
\* difference, single product and every value of the accumulator after each of
\* its four steps is an int32_t, no overflow is met, and the results returned
\* equal the results over the unbounded integers.
C7_NoOverflowInSafeRange ==
    OperandsSafe =>
        /\ "signed_overflow" \notin fault /\ pc # "trap"
        /\ \A c \in Cells :
              /\ InInt32(WideAdd(WideOf(A[c]), WideOf(B[c])))
              /\ InInt32(WideAdd(WideOf(A[c]), WideOf(0 - B[c])))
        /\ \A r \in 0..3, c \in 0..3, k \in 0..3 :
              /\ InInt32(WideOf(A[r * 4 + k] * B[k * 4 + c]))
              /\ InInt32(SumAfter(A, B, r, c, k + 1))
        /\ SoftwareReturned =>
              \A r \in 0..3, c \in 0..3 :
                 /\ WideOf(SW_Prod[r * 4 + c]) = SumAfter(A, B, r, c, 4)
                 /\ WideOf(SW_Sum[r * 4 + c]) = WideAdd(WideOf(A[r * 4 + c]), WideOf(B[r * 4 + c]))
                 /\ WideOf(SW_Diff[r * 4 + c]) = WideAdd(WideOf(A[r * 4 + c]), WideOf(0 - B[r * 4 + c]))

\* The engine has returned for the extreme operands -23170 and +23170.
C7_Witness ==
    /\ SoftwareReturned
    /\ A = AllMin /\ B = AllMax
    /\ SW_Prod[0] = 0 - 4 * SAFE_INPUT_MAX * SAFE_INPUT_MAX

\* C8: software_matrix_operations returns the row-major 4x4 matrix product,
\* SW_Result[i*4+j] = A[i*4]*B[j] + A[i*4+1]*B[4+j] + A[i*4+2]*B[8+j] +
\* A[i*4+3]*B[12+j] in every cell; with A the identity the product is B, with
\* B the identity it is A (operands within the safe range).
C8_StandardProduct ==
    (SoftwareReturned /\ OperandsSafe) =>
        /\ \A r \in 0..3, c \in 0..3 :
              SW_Prod[r * 4 + c] =
                  A[r * 4] * B[c] + A[r * 4 + 1] * B[4 + c]
                  + A[r * 4 + 2] * B[8 + c] + A[r * 4 + 3] * B[12 + c]
        /\ (A = Identity => SW_Prod = B)
        /\ (B = Identity => SW_Prod = A)

\* The engine has returned B for A the identity and B = 1..16.
C8_Witness ==
    /\ SoftwareReturned
    /\ A = Identity /\ B = Counting
    /\ SW_Prod = Counting

\* C9: for operands within the safe range and every cell,
\* SW_Sum + SW_Diff = 2 * A, with SW_Sum = A + B and SW_Diff = A - B.
C9_SumPlusDiff ==
    (SoftwareReturned /\ OperandsSafe) =>
        \A c \in Cells :
           /\ SW_Sum[c] + SW_Diff[c] = 2 * A[c]
           /\ SW_Sum[c] = A[c] + B[c]
           /\ SW_Diff[c] = A[c] - B[c]

\* The engine has returned a sum and a nonzero difference.
C9_Witness ==
    /\ SoftwareReturned
    /\ A = AllMin /\ B = AllMax
    /\ SW_Sum[15] = 0
    /\ SW_Diff[15] = 0 - 2 * SAFE_INPUT_MAX

(***************************************************************************)
(* Properties of hardware_matrix_operations                                *)
(***************************************************************************)
\* Kinds of accelerator access in the history of a driver call.
IsWrite(e, lo, hi) == e.op = "w" /\ e.off >= lo /\ e.off <= hi
IsRead(e, lo, hi)  == e.op = "r" /\ e.off >= lo /\ e.off <= hi
IsResultRead(e)    == IsRead(e, SUM_OFFSET, CONTROL_OFFSET - 1)
IsStatusRead(e)    == IsRead(e, STATUS_OFFSET, STATUS_OFFSET)
IsControlWrite(e)  == IsWrite(e, CONTROL_OFFSET, CONTROL_OFFSET)
ResultReads        == {j \in 1..Len(trace) : IsResultRead(trace[j])}

\* The statements of main that follow the return of the driver.
AfterDriver == {"L211", "L212", "L213", "L213b", "L214", "L285", "L289", "L295"}
DriverReturned == pc \in AfterDriver

\* C1: in a driver call no read of a sum, difference or product register
\* (offsets 32..79) comes before a read of the status register (offset 81) that
\* returned a word with bit 0 set.
C1_NoResultReadBeforeDone ==
    LET doneReads == {k \in 1..Len(trace) :
                         IsStatusRead(trace[k]) /\ WordBit0(trace[k].val) = 1}
    IN  \A j \in 1..Len(trace) :
           IsResultRead(trace[j]) => \E k \in doneReads : k < j

\* A result register has been read in a call whose first status read found the
\* peripheral not done.
C1_Witness ==
    /\ ResultReads # {}
    /\ \E k \in 1..Len(trace) : IsStatusRead(trace[k]) /\ WordBit0(trace[k].val) = 0

\* C2: for operands within the safe range, once the driver has returned, its
\* three outputs equal those of software_matrix_operations cell for cell.
C2_HardwareEqualsSoftware ==
    (DriverReturned /\ OperandsSafe) =>
        /\ HW_Sum = SW_Sum
        /\ HW_Diff = SW_Diff
        /\ HW_Prod = SW_Prod

\* Both engines have returned the same negative product and difference.
C2_Witness ==
    /\ DriverReturned /\ OperandsSafe
    /\ HW_Prod = SW_Prod /\ HW_Diff = SW_Diff /\ HW_Sum = SW_Sum
    /\ HW_Prod[0] = 0 - 4 * SAFE_INPUT_MAX * SAFE_INPUT_MAX
    /\ HW_Diff[0] = 0 - 2 * SAFE_INPUT_MAX

\* The protocol step an access belongs to (0: none).
Phase(e) ==
    IF IsWrite(e, A_OFFSET, B_OFFSET - 1) THEN 1
    ELSE IF IsWrite(e, B_OFFSET, SUM_OFFSET - 1) THEN 2
    ELSE IF IsControlWrite(e) THEN 3
    ELSE IF IsStatusRead(e) THEN 4
    ELSE IF IsResultRead(e) THEN 5
    ELSE 0

\* The sequence ph of protocol steps is that of one driver call, as far as it
\* has come: sixteen 1s, sixteen 2s, one 3, then 4s, then 5s.
StepsInOrder(ph) ==
    \A j \in DOMAIN ph :
       /\ ph[j] # 0
       /\ j > 1 => ph[j - 1] <= ph[j]
       /\ j <= 16 => ph[j] = 1
       /\ (j > 16 /\ j <= 32) => ph[j] = 2
       /\ j = 33 => ph[j] = 3
       /\ j > 33 => ph[j] > 3

\* C3: the accesses of a driver call are ordered: 16 writes to the operand-A
\* region, then 16 writes to the operand-B region, then the control write,
\* then status reads, then result reads.  The control register is written
\* exactly once per call, with the value 1, and no operand register is written
\* after it.
C3_AccessesOrdered ==
    /\ StepsInOrder([j \in 1..Len(trace) |-> Phase(trace[j])])
    /\ \A j \in 1..Len(trace) : IsControlWrite(trace[j]) => trace[j].val = Word1
    /\ (pc \in {"L91", "L100", "L108", "L114"} \/ DriverReturned)
          => Cardinality({j \in 1..Len(trace) : IsControlWrite(trace[j])}) = 1

\* A driver call has returned after all five steps.
C3_Witness ==
    /\ pc = "L211"
    /\ \E j \in 1..Len(trace) : IsControlWrite(trace[j])
    /\ \E j \in 1..Len(trace) : IsStatusRead(trace[j])
    /\ Cardinality(ResultReads) = 48

(***************************************************************************)
(* Properties of main                                                      *)
(***************************************************************************)
\* C4: main never divides by zero: when hw_cycles is 0 the speedup is a
\* fallback value, not the quotient sw_cycles / hw_cycles.
C4_DivisionGuarded == "division_by_zero" \notin fault

(***************************************************************************)
(* Termination of a driver call                                            *)
(***************************************************************************)
\* The processor keeps executing the program; the peripheral, once started,
\* completes and sets status bit 0 (which stays set until the next start).
FairSpec == Spec /\ WF_vars(Program) /\ WF_vars(AccelFinish)

\* C5: when a started peripheral eventually sets status bit 0, every call of
\* the driver returns, having read all 48 result registers.
C5_DriverReturns ==
    (pc = "L75" /\ i = 0) ~> (pc = "L211" /\ Cardinality(ResultReads) = 48)

\* A call has returned with its 48 results after polling a peripheral that was
\* not done at first.
C5_Witness ==
    /\ pc = "L211"
    /\ Cardinality(ResultReads) = 48
    /\ \E k \in 1..Len(trace) : IsStatusRead(trace[k]) /\ WordBit0(trace[k].val) = 0
    /\ DOMAIN HW_Prod = Cells

\* C6: while status bit 0 reads 0 after the control write the driver stays in
\* its poll loop, whose next poll is always possible (no bound, no timeout):
\* it writes no register, reads no result register, assigns no cell of
\* HW_Sum, HW_Diff or HW_Prod and does not return, so hw_cycles and speedup
\* are not computed.
C6_PollsWhileNotDone ==
    [][(pc = "L91" /\ ~accel_done) =>
          /\ ENABLED PollStatus
          /\ pc' = "L91"
          /\ UNCHANGED <<i, HW_Sum, HW_Diff, HW_Prod, sw_cycles, hw_cycles, last_count, speedup>>
          /\ \/ trace' = trace
             \/ trace' = Append(trace, Entry("r", STATUS_OFFSET, AccelStatus))
          /\ \/ tlog' = tlog
             \/ tlog' = Append(tlog, Entry("accel", 0, 0))
          /\ \A off \in 0..(SUM_OFFSET - 1) : accel_regs'[off] = accel_regs[off]
      ]_vars

\* The driver has polled a peripheral that is not done.
C6_Witness ==
    /\ pc = "L91"
    /\ ~accel_done
    /\ trace # <<>>
    /\ IsStatusRead(trace[Len(trace)])
    /\ WordBit0(trace[Len(trace)].val) = 0

(***************************************************************************)
(* The timer protocol of main                                              *)
(***************************************************************************)
\* The timer accesses and engine runs of one iteration, by position.
TimerSlotOK(j) ==
    LET e == tlog[j]
        m == ((j - 1) % 8) + 1
    IN  IF m = 1 THEN e = Entry("w", TIMER_PERIODL, PERIOD_MAX16)
        ELSE IF m = 2 THEN e = Entry("w", TIMER_PERIODH, PERIOD_MAX16)
        ELSE IF m = 3 THEN e = Entry("w", TIMER_CONTROL, TIMER_START)
        ELSE IF m = 4 THEN e = (IF j = 4 THEN Entry("sw", 0, 0) ELSE Entry("accel", 0, 0))
        ELSE IF m = 5 THEN e = Entry("w", TIMER_CONTROL, TIMER_STOP)
        ELSE IF m = 6 THEN e = Entry("w", TIMER_SNAPL, 1)
        ELSE IF m = 7 THEN e.op = "r" /\ e.off \in {TIMER_SNAPL, TIMER_SNAPH}
        ELSE /\ e.op = "r" /\ e.off \in {TIMER_SNAPL, TIMER_SNAPH}
             /\ e.off # tlog[j - 1].off

DriverLabels == {"L75", "L84", "L88", "L91", "L100", "L108", "L114"}

\* C10: in every iteration the timer accesses are a start sequence, the run
\* of the software engine, a stop-and-read sequence, a start sequence, the
\* accesses of the driver, a stop-and-read sequence, in this order and nothing
\* else; an iteration begins only with the previous one complete and the
\* timer stopped; the software engine and the driver run with the timer
\* counting, the engine in the first measurement, the driver in the second.
C10_TimerAlternates ==
    /\ Len(tlog) <= 16
    /\ \A j \in 1..Len(tlog) : TimerSlotOK(j)
    /\ pc = "L143" => (~timer_running /\ Len(tlog) = (IF iter = 0 THEN 0 ELSE 16))
    /\ pc = "L195" => (timer_running /\ Len(tlog) = 3)
    /\ pc = "L197" => (timer_running /\ Len(tlog) = 4)
    /\ pc = "L209" => (timer_running /\ Len(tlog) = 11)
    /\ pc \in DriverLabels => (timer_running /\ Len(tlog) \in {11, 12})
    /\ pc = "L211" => (timer_running /\ Len(tlog) = 12)
    /\ pc \in {"L200", "L205", "L214", "L285", "L289", "L295"} => ~timer_running

\* The second iteration has completed both of its measurements.
C10_Witness ==
    /\ iter = 2
    /\ pc = "L289"
    /\ Len(tlog) = 16

(***************************************************************************)
(* The snapshot before the count registers are read                        *)
(***************************************************************************)
IsTimerAccess(e) == e.op \in {"w", "r"}
IsCountRead(e) == e.op = "r" /\ e.off \in {TIMER_SNAPL, TIMER_SNAPH}
SnapshotWrite == Entry("w", TIMER_SNAPL, 1)
StopWrite == Entry("w", TIMER_CONTROL, TIMER_STOP)

\* The timer accesses of the iteration, in order.
TimerAccesses == SelectSeq(tlog, IsTimerAccess)

\* Every count read of ta directly follows the snapshot write, and every
\* snapshot write comes after a stop write.
EachReadAfterSnapshot(ta) ==
    /\ \A j \in 1..Len(ta) : IsCountRead(ta[j]) => (j > 1 /\ ta[j - 1] = SnapshotWrite)
    /\ \A j \in 1..Len(ta) : ta[j] = SnapshotWrite =>
           \E k \in 1..(j - 1) : ta[k] = StopWrite

\* The count reads of ta come in pairs, one of each register, and the pair
\* directly follows the snapshot write, which directly follows the stop write.
PairAfterSnapshot(ta) ==
    /\ \A j \in 1..Len(ta) : IsCountRead(ta[j]) =>
           /\ j > 1
           /\ \/ ta[j - 1] = SnapshotWrite
              \/ /\ j > 2
                 /\ IsCountRead(ta[j - 1])
                 /\ ta[j - 1].off # ta[j].off
                 /\ ta[j - 2] = SnapshotWrite
    /\ \A j \in 1..Len(ta) : ta[j] = SnapshotWrite => (j > 1 /\ ta[j - 1] = StopWrite)

\* C11 as stated: in every measurement each read of count-low or count-high
\* has the snapshot write (1 to offset 4) as the directly preceding timer
\* access, and that snapshot write comes after the stop write.
C11_EachReadDirectlyAfterSnapshot == EachReadAfterSnapshot(TimerAccesses)

\* C11: in every measurement the two count reads (count-high and count-low,
\* in either order) follow one snapshot write: the first read has the
\* snapshot write as the directly preceding timer access, the second read has
\* the first read directly before it and the snapshot write before that, and
\* the snapshot write directly follows the stop write (control = 0x8).
C11_SnapshotBeforeCountReads == PairAfterSnapshot(TimerAccesses)

\* Both measurements of an iteration have read both count registers.
C11_Witness ==
    /\ pc = "L214"
    /\ Len(TimerAccesses) = 14
    /\ IsCountRead(TimerAccesses[13])
    /\ IsCountRead(TimerAccesses[14])

(***************************************************************************)
(* The cycle count of a measurement                                        *)
(***************************************************************************)
\* C12: in each of the two measurements of every iteration, with the counter
\* reloaded to 0xFFFFFFFF and decremented once per tick, the value
\* 0xFFFFFFFF - ((count_high << 16) | count_low) is the number of ticks
\* counted between the measurement's start write and its stop write: 0 when
\* none was counted, never negative, and without the ticks of the previous
\* measurement.
C12_CyclesAreTicks ==
    /\ pc \in {"L200", "L214"} =>
           /\ timer_period = WordAllOnes
           /\ CyclesOf(last_count) = NatToWord(timer_ticks)
    /\ pc = "L205" => (IsWord(sw_cycles) /\ sw_cycles = NatToWord(timer_ticks))
    /\ pc = "L285" => (IsWord(hw_cycles) /\ hw_cycles = NatToWord(timer_ticks))

\* Each measurement of the second iteration counted its own tick.
C12_Witness ==
    /\ iter = 2
    /\ pc = "L285"
    /\ timer_ticks = MaxTicks
    /\ sw_cycles = NatToWord(MaxTicks)
    /\ hw_cycles = NatToWord(MaxTicks)

(***************************************************************************)
(* The exit of the poll loop                                               *)
(***************************************************************************)
\* C13 as stated: the driver leaves its poll loop only when the status
\* register shows DONE = 1 and BUSY = 0, that is only when it reads exactly
\* 1; while any bit other than bit 0 is set the driver keeps polling and
\* reads no result.
C13_LeavesOnlyOnStatusOne ==
    [][(pc = "L91" /\ pc' # "L91") => AccelStatus = Word1]_vars

(***************************************************************************)
(* Repeated invocations of the driver                                      *)
(***************************************************************************)
PastPoll == {"L100", "L108", "L114"}

\* The result registers hold the sum, difference and product of MA and MB.
RegistersHoldResults(MA, MB) ==
    \A c \in Cells :
        /\ ToInt32(accel_regs[SUM_OFFSET + c]) = MA[c] + MB[c]
        /\ ToInt32(accel_regs[DIFF_OFFSET + c]) = MA[c] - MB[c]
        /\ ToInt32(accel_regs[PROD_OFFSET + c]) = ProdCell(MA, MB, c \div 4, c % 4)

OperandCount == SUM_OFFSET - A_OFFSET
ResultCount == CONTROL_OFFSET - SUM_OFFSET

\* The operand written at position j of a call: A[0..15], then B[0..15].
OperandAt(j) == IF j <= B_OFFSET THEN A[j - 1] ELSE B[j - 1 - B_OFFSET]

\* The cell of HW_Sum, HW_Diff or HW_Prod that the read of offset off fills.
StoredFrom(off) ==
    IF off < DIFF_OFFSET THEN HW_Sum[off - SUM_OFFSET]
    ELSE IF off < PROD_OFFSET THEN HW_Diff[off - DIFF_OFFSET]
    ELSE HW_Prod[off - PROD_OFFSET]

\* The accesses tr of a call, n of them result reads: the operand writes are
\* the first accesses, offset j - 1 at position j; the result reads are the
\* last n accesses, offsets 32, 33, ... in this order; between them the
\* control register is only written and the status register only read.
AccessSets(tr, n) ==
    LET first == Len(tr) - n + 1
    IN  /\ \A j \in 1..Len(tr) :
               /\ tr[j].off >= A_OFFSET /\ tr[j].off <= STATUS_OFFSET
               /\ tr[j].op = "w" => (tr[j].off < SUM_OFFSET \/ tr[j].off = CONTROL_OFFSET)
               /\ tr[j].op = "r" => (tr[j].off >= SUM_OFFSET /\ tr[j].off # CONTROL_OFFSET)
               /\ j <= OperandCount => tr[j] = Entry("w", j - 1, ToUint32(OperandAt(j)))
               /\ j = OperandCount + 1 => tr[j].off = CONTROL_OFFSET
               /\ (j > OperandCount + 1 /\ j < first) => tr[j].off = STATUS_OFFSET
               /\ j >= first =>
                      /\ tr[j] = Entry("r", SUM_OFFSET + (j - first), tr[j].val)
                      /\ StoredFrom(tr[j].off) = ToInt32(tr[j].val)
        /\ n <= ResultCount
        /\ n > 0 => first > OperandCount + 2

\* C15: in one driver call every accessed offset lies in 0..81; each of
\* 0..15 is written exactly once with A[offset], each of 16..31 exactly once
\* with B[offset - 16], each of 32..47, 48..63 and 64..79 is read exactly once
\* into HW_Sum, HW_Diff and HW_Prod at the matching index, offset 80 is only
\* written and offset 81 only read; no result or status register is written
\* and no operand or control register is read.  Stated of the accesses of a
\* call that has returned and of a call that waits in its poll loop.
C15_AccessSetsDisjointComplete ==
    /\ (pc = "L91" \/ DriverReturned) =>
           AccessSets(trace, Cardinality(ResultReads))
    /\ DriverReturned =>
           /\ Cardinality(ResultReads) = ResultCount
           /\ DOMAIN HW_Sum = Cells /\ DOMAIN HW_Diff = Cells /\ DOMAIN HW_Prod = Cells

\* A call has returned after its 32 operand writes, its control write, its
\* polls and its 48 result reads.
C15_Witness ==
    /\ pc = "L211"
    /\ Len(trace) >= OperandCount + 2 + ResultCount
    /\ Cardinality(ResultReads) = ResultCount
    /\ trace[Len(trace)].off = CONTROL_OFFSET - 1

(***************************************************************************)
(* Signed values on the bus                                                *)
(***************************************************************************)
\* a mod 2^32 for a signed 16-bit a, as a word.
WordOfSigned16(a) == IF a >= 0 THEN <<0, a>> ELSE <<Half - 1, Half + a>>

\* The operand of the call that the write of offset off carries.
OperandOf(off) == IF off < B_OFFSET THEN A[off - A_OFFSET] ELSE B[off - B_OFFSET]

\* v is the word w when w < 2^31 and w - 2^32 otherwise.
SignedValueOf(v, w) ==
    IF w[1] < HalfSign
    THEN v >= 0 /\ v \div Half = w[1] /\ v % Half = w[2]
    ELSE v < 0 /\ v \div Half = w[1] - Half /\ v % Half = w[2]

\* C16: for every signed 16-bit operand a the word written to its operand
\* register is a mod 2^32 and the low 16 bits of that word, taken as a signed
\* 16-bit value, are a; for every result word w read back the value stored in
\* HW_Sum, HW_Diff or HW_Prod is w when w < 2^31 and w - 2^32 otherwise, so
\* that a negative result of the peripheral is returned as that negative
\* number.
C16_SignedValuesSurvive ==
    (pc \in DriverLabels \/ pc = "L211") =>
        \A j \in 1..Len(trace) :
            /\ IsWrite(trace[j], A_OFFSET, SUM_OFFSET - 1) =>
                   /\ trace[j].val = WordOfSigned16(OperandOf(trace[j].off))
                   /\ WrapInt16(trace[j].val) = OperandOf(trace[j].off)
            /\ IsResultRead(trace[j]) =>
                   SignedValueOf(StoredFrom(trace[j].off), trace[j].val)

\* A call with negative and positive operands has returned a negative
\* product, read as a word of 2^31 or more, and a positive sum.
C16_Witness ==
    /\ pc = "L211"
    /\ A[0] < 0 /\ B[0] > 0
    /\ \E j \in 1..Len(trace) :
           /\ IsRead(trace[j], PROD_OFFSET, PROD_OFFSET)
           /\ trace[j].val[1] >= HalfSign
    /\ HW_Prod[0] < 0
    /\ HW_Prod[0] = SwProd(A, B)[0]
    /\ HW_Sum[1] > 0

====
